---- MODULE Spec2Model ----
(***************************************************************************)
(* State-machine model of the ZeroGuard dashboard client: the App view     *)
(* router (activeTab, scanData, isScanning), the Sidebar, the Upload       *)
(* controller (file slots, FileReader reads, /scan requests), the Report   *)
(* controls, the Dashboard with its AIExplanation panel, and the           *)
(* AIAssistant chat (/explain requests).                                   *)
(*                                                                         *)
(* React semantics used throughout: a component's useState values exist    *)
(* only while the component is mounted.  App.renderContent mounts exactly  *)
(* the view of the active tab, and Dashboard mounts its result panels only *)
(* when it is not scanning and holds a result; leaving a view discards its *)
(* local state (the variables then hold their initial values), and a state *)
(* setter called later by a callback of the discarded instance changes     *)
(* nothing.  App itself is never unmounted.  A JavaScript handler runs to  *)
(* its next await without interleaving, so each action is one such run.    *)
(*                                                                         *)
(* Spec is the whole client.  ReportSpec and DashboardSpec start the       *)
(* Report and the Dashboard on enumerated scan results and exercise the    *)
(* pure list functions of those views (aggregation, filter, search,        *)
(* grouping, summary counts, severity badges).  FairSpec is Spec with the  *)
(* fairness the axios timeout gives to the requests of the AIAssistant.    *)
(*                                                                         *)
(* Three history variables record what the user did and is no longer held  *)
(* by the program: the mode selected last, the issue an explanation was    *)
(* asked for, the file selected last for a slot.  No action reads them.    *)
(***************************************************************************)
EXTENDS Integers, Sequences, FiniteSets, TLC

VARIABLES
  activeTab, scanData, isScanning,      \* App
  files, error, mode,                   \* Upload (mounted iff activeTab = "upload")
  reads, orphanReads,                   \* FileReader reads in flight: of the mounted Upload, of unmounted ones
  net,                                  \* /scan requests in flight; live iff issued by the mounted Upload
  filter, searchTerm,                   \* Report (mounted iff activeTab = "report")
  selectedIssue,                        \* Dashboard (mounted iff activeTab = "dashboard")
  isExplaining, detailedExplanation, isExpanded,   \* AIExplanation
  explainNet,                           \* /explain requests in flight issued by AIExplanation; live iff by the mounted one
  messages, input, isLoading,           \* AIAssistant (mounted iff activeTab = "ai-assistant")
  assistantNet,                         \* /explain requests in flight issued by AIAssistant; live iff by the mounted one
  selectedMode,                         \* history: the mode selected in the Upload view shown last
  explainedIssue,                       \* history: the issue whose /explain request gave detailedExplanation
  lastSelected                          \* history: per slot with a read in flight, the file selected last for it

appVars == <<activeTab, scanData, isScanning>>
uploadVars == <<files, error, mode, reads, orphanReads, net>>
reportVars == <<filter, searchTerm>>
dashboardVars == <<selectedIssue, isExplaining, detailedExplanation, isExpanded, explainNet>>
assistantVars == <<messages, input, isLoading, assistantNet>>

\* history variables: read by no action, they record what the user did
historyVars == <<selectedMode, explainedIssue, lastSelected>>

vars == <<appVars, uploadVars, reportVars, dashboardVars, assistantVars, historyVars>>

-----------------------------------------------------------------------------
(* Bounds *)

MaxInFlight == 2        \* file reads and requests in flight at once
MaxMessages == 5        \* chat messages shown at once
MaxIssues == 2          \* issues per category of a scan result given to the Report
MaxSuggestions == 3     \* best-practice suggestions of a scan result

-----------------------------------------------------------------------------
(* Values *)

Tabs == {"dashboard", "upload", "report", "ai-assistant"}

Slots == {"dockerfile", "docker_compose", "env_file"}

Modes == {"beginner", "devops"}

\* JavaScript null (scanData, selectedIssue)
Null == [null |-> TRUE]

\* Files on the user's disk: a name and the text FileReader.readAsText yields
DiskFiles == {[name |-> "Dockerfile", text |-> "FROM node"],
              [name |-> "app.dockerfile", text |-> "FROM alpine"],
              [name |-> "docker-compose.yml", text |-> "services:"],
              [name |-> ".env", text |-> "KEY=1"]}

\* An issue; an absent field is ""
Issue(m, d, s, f) == [message |-> m, description |-> d, severity |-> s, file |-> f]

\* Scan-result documents the backend may return
ScanResults ==
  {[syntax_errors    |-> <<Issue("bad indent", "", "high", "docker-compose.yml")>>,
    security_issues  |-> <<Issue("", "runs as root", "critical", "Dockerfile")>>,
    logic_conflicts  |-> <<>>,
    secrets_detected |-> <<>>],
   [syntax_errors    |-> <<>>,
    security_issues  |-> <<Issue("latest tag", "", "medium", "Dockerfile")>>,
    logic_conflicts  |-> <<>>,
    secrets_detected |-> <<Issue("api key", "", "High", ".env")>>]}

\* A JavaScript value found in error.response.data.detail or error.message
Undefined == [kind |-> "undefined", str |-> ""]
JsString(s) == [kind |-> "string", str |-> s]
JsEmptyArray == [kind |-> "array", str |-> ""]

\* JavaScript truthiness and String() of such a value
Truthy(v) == v.kind = "array" \/ (v.kind = "string" /\ v.str # "")
JsToString(v) == v.str

\* a || b on such values, and on strings
JsOr(a, b) == IF Truthy(a) THEN a ELSE b
StrOr(a, b) == IF a # "" THEN a ELSE b

\* Rejections axios can hand to the response interceptor:
\* error.response.data.detail and error.message
AxiosErrors ==
  {[detail |-> Undefined, message |-> JsString("Network Error")],
   [detail |-> JsString("Invalid Dockerfile"), message |-> JsString("Request failed with status code 400")],
   [detail |-> JsEmptyArray, message |-> JsString("Request failed with status code 422")]}

\* explanation texts the /explain endpoint may return
Explanations == {"Run the container as a non-root user."}

-----------------------------------------------------------------------------
(* JavaScript objects used as maps: a set of key/value properties *)

Keys(obj) == {p.key : p \in obj}

Has(obj, k) == k \in Keys(obj)

Get(obj, k) == (CHOOSE p \in obj : p.key = k).value

\* mutant of SpreadAssign: the new property is added without replacing the old one
SpreadAssign_additive(prev, k, v) == prev \cup {[key |-> k, value |-> v]}

\* { ...prev, [k]: v }
SpreadAssign(prev, k, v) == {p \in prev : p.key # k} \cup {[key |-> k, value |-> v]}

\* const o = { ...prev }; delete o[k]
SpreadDelete(prev, k) == {p \in prev : p.key # k}

\* s without its i-th element
RemoveAt(s, i) == [j \in 1..(Len(s) - 1) |-> IF j < i THEN s[j] ELSE s[j + 1]]

-----------------------------------------------------------------------------
(* JavaScript strings: ASCII text *)

UpperCase == "ABCDEFGHIJKLMNOPQRSTUVWXYZ"
LowerCase == "abcdefghijklmnopqrstuvwxyz"

\* the i-th character of s
Char(s, i) == SubSeq(s, i, i)

\* the lower-case letter of each upper-case letter
LowerMap ==
  [c \in {Char(UpperCase, i) : i \in 1..Len(UpperCase)} |->
     Char(LowerCase, CHOOSE i \in 1..Len(UpperCase) : Char(UpperCase, i) = c)]

\* toLowerCase of one character
LowerChar(c) == IF c \in DOMAIN LowerMap THEN LowerMap[c] ELSE c

\* String.prototype.toLowerCase
RECURSIVE toLowerCase(_)
toLowerCase(s) ==
  IF Len(s) = 0 THEN ""
  ELSE LowerChar(Char(s, 1)) \o toLowerCase(SubSeq(s, 2, Len(s)))

\* String.prototype.includes
includes(s, w) == \E i \in 0..(Len(s) - Len(w)) : SubSeq(s, i + 1, i + Len(w)) = w

-----------------------------------------------------------------------------
(* api.js *)

\* response interceptor, rejection branch: the message of the Error it rejects with
InterceptorMessage(e) ==
  JsToString(JsOr(e.detail, JsOr(e.message, JsString("Request failed"))))

\* body of the request explainIssue posts; callers pass no mode
ExplainRequest(issue) ==
  [issue_description |-> StrOr(issue.message, issue.description),
   configuration_context |-> [file |-> issue.file],
   mode |-> "devops"]

-----------------------------------------------------------------------------
(* Upload: pure parts *)

\* the value processFile stores for a slot
FileEntry(f) == [file |-> f, content |-> f.text, name |-> f.name]

\* formData built by handleScan: the ordered list of appended parts
FormPart(n, v) == [name |-> n, value |-> v]

\* mutant of BuildFormData: the env_file part is never appended
BuildFormData_dropsEnvFile(fs, m) ==
  LET s1 == IF Has(fs, "dockerfile")
            THEN <<FormPart("dockerfile", Get(fs, "dockerfile").file)>> ELSE <<>>
      s2 == IF Has(fs, "docker_compose")
            THEN Append(s1, FormPart("docker_compose", Get(fs, "docker_compose").file)) ELSE s1
  IN  Append(s2, FormPart("mode", m))

BuildFormData(fs, m) ==
  LET s1 == IF Has(fs, "dockerfile")
            THEN <<FormPart("dockerfile", Get(fs, "dockerfile").file)>> ELSE <<>>
      s2 == IF Has(fs, "docker_compose")
            THEN Append(s1, FormPart("docker_compose", Get(fs, "docker_compose").file)) ELSE s1
      s3 == IF Has(fs, "env_file")
            THEN Append(s2, FormPart("env_file", Get(fs, "env_file").file)) ELSE s2
  IN  Append(s3, FormPart("mode", m))

\* s ends with w
EndsWith(s, w) == Len(w) <= Len(s) /\ SubSeq(s, Len(s) - Len(w) + 1, Len(s)) = w

\* getAcceptString: the files the file input of slot k lists
Accepts(k, name) ==
  CASE k = "dockerfile" -> EndsWith(toLowerCase(name), ".dockerfile") \/ name = "Dockerfile"
    [] k = "docker_compose" -> EndsWith(toLowerCase(name), ".yml") \/ EndsWith(toLowerCase(name), ".yaml")
    [] k = "env_file" -> EndsWith(toLowerCase(name), ".env")

\* the files the user picks from for slot k
Offered(k) == {d \in DiskFiles : Accepts(k, d.name)}

\* disabled attribute of the Start Analysis button
ScanButtonDisabled == Cardinality(Keys(files)) = 0

\* message handleScan shows for a rejected scan
ScanErrorText(msg) == StrOr(msg, "Scan failed. Please try again.")

-----------------------------------------------------------------------------
(* Issue lists *)

\* (d[f] || []): the array of a result document, empty when the property is missing
OrEmpty(d, f) == IF f \in DOMAIN d THEN d[f] ELSE <<>>

\* mutant of AllIssues: security issues are listed before syntax errors
AllIssues_securityFirst(d) ==
  IF d = Null THEN <<>>
  ELSE OrEmpty(d, "security_issues") \o OrEmpty(d, "syntax_errors")
       \o OrEmpty(d, "logic_conflicts") \o OrEmpty(d, "secrets_detected")

\* [...(syntax_errors || []), ...(security_issues || []), ...]
AllIssues(d) ==
  IF d = Null THEN <<>>
  ELSE OrEmpty(d, "syntax_errors") \o OrEmpty(d, "security_issues")
       \o OrEmpty(d, "logic_conflicts") \o OrEmpty(d, "secrets_detected")

IssueSet(d) == {AllIssues(d)[j] : j \in 1..Len(AllIssues(d))}

\* AIAssistant: allIssues.filter(severity in ['critical', 'high'])
MostCritical(d) == SelectSeq(AllIssues(d), LAMBDA i : i.severity \in {"critical", "high"})

-----------------------------------------------------------------------------
(* Report: pure parts *)

\* mutant of filterIssues: severities are compared ignoring case
filterIssues_ignoresCase(issues, f) ==
  IF f = "all" THEN issues
  ELSE SelectSeq(issues, LAMBDA issue : toLowerCase(issue.severity) = f)

\* filterIssues with the filter state passed in
filterIssues(issues, f) ==
  IF f = "all" THEN issues
  ELSE SelectSeq(issues, LAMBDA issue : issue.severity = f)

\* mutant of searchIssues: the file name is not searched
searchIssues_skipsFile(issues, term) ==
  IF term = "" THEN issues
  ELSE SelectSeq(issues, LAMBDA issue :
         \/ issue.message # "" /\ includes(toLowerCase(issue.message), toLowerCase(term))
         \/ issue.description # "" /\ includes(toLowerCase(issue.description), toLowerCase(term)))

\* mutant of searchIssues: only the first matching issue is kept
searchIssues_firstMatch(issues, term) ==
  IF term = "" THEN issues
  ELSE LET found == SelectSeq(issues, LAMBDA issue :
                      \/ issue.message # "" /\ includes(toLowerCase(issue.message), toLowerCase(term))
                      \/ issue.description # "" /\ includes(toLowerCase(issue.description), toLowerCase(term))
                      \/ issue.file # "" /\ includes(toLowerCase(issue.file), toLowerCase(term)))
       IN  SubSeq(found, 1, IF Len(found) > 0 THEN 1 ELSE 0)

\* searchIssues with the searchTerm state passed in
searchIssues(issues, term) ==
  IF term = "" THEN issues
  ELSE SelectSeq(issues, LAMBDA issue :
         \/ issue.message # "" /\ includes(toLowerCase(issue.message), toLowerCase(term))
         \/ issue.description # "" /\ includes(toLowerCase(issue.description), toLowerCase(term))
         \/ issue.file # "" /\ includes(toLowerCase(issue.file), toLowerCase(term)))

\* the list the Report displays
filteredIssues == searchIssues(filterIssues(AllIssues(scanData), filter), searchTerm)

-----------------------------------------------------------------------------
(* IssueSummary: pure parts *)

\* the four categories, in the order IssueSummary lists them
categories == <<"syntax_errors", "security_issues", "logic_conflicts", "secrets_detected">>

\* categories.reduce((sum, cat) => sum + cat.issues.length, 0)
totalIssues(d) ==
  Len(OrEmpty(d, categories[1])) + Len(OrEmpty(d, categories[2]))
    + Len(OrEmpty(d, categories[3])) + Len(OrEmpty(d, categories[4]))

\* cat.issues.filter(i => bucket.includes(i.severity?.toLowerCase())).length, summed
\* over the categories
SeverityCount(d, bucket) ==
  LET n(c) == Len(SelectSeq(OrEmpty(d, c), LAMBDA i : toLowerCase(i.severity) \in bucket))
  IN  n(categories[1]) + n(categories[2]) + n(categories[3]) + n(categories[4])

\* mutant of CriticalHighCount: severities are compared as they are written
CriticalHighCount_caseSensitive(d) ==
  LET n(c) == Len(SelectSeq(OrEmpty(d, c), LAMBDA i : i.severity \in {"critical", "high", "error"}))
  IN  n(categories[1]) + n(categories[2]) + n(categories[3]) + n(categories[4])

\* Quick Stats: the Critical/High number
CriticalHighCount(d) == SeverityCount(d, {"critical", "high", "error"})

\* mutant of MediumCount: warnings are not counted
MediumCount_noWarning(d) == SeverityCount(d, {"medium"})

\* Quick Stats: the Medium number
MediumCount(d) == SeverityCount(d, {"medium", "warning"})

-----------------------------------------------------------------------------
(* Severity badges *)

\* IssueSummary.getSeverityBadge: severityConfig, keyed by severity?.toLowerCase()
severityConfig ==
  [critical |-> [class |-> "badge-critical", label |-> "Critical"],
   high |-> [class |-> "badge-high", label |-> "High"],
   medium |-> [class |-> "badge-medium", label |-> "Medium"],
   low |-> [class |-> "badge-low", label |-> "Low"],
   error |-> [class |-> "badge-critical", label |-> "Error"],
   warning |-> [class |-> "badge-high", label |-> "Warning"]]

IssueSummary_getSeverityBadge(severity) ==
  IF toLowerCase(severity) \in DOMAIN severityConfig
  THEN severityConfig[toLowerCase(severity)] ELSE severityConfig.low

\* getSeverityBadge of Report, SecretAlerts and BestPractices: badges[severity] || 'badge-low'
badges ==
  [critical |-> "badge-critical", high |-> "badge-high",
   medium |-> "badge-medium", low |-> "badge-low"]

Report_getSeverityBadge(severity) ==
  IF severity \in DOMAIN badges THEN badges[severity] ELSE "badge-low"

SecretAlerts_getSeverityBadge(severity) ==
  IF severity \in DOMAIN badges THEN badges[severity] ELSE "badge-low"

BestPractices_getSeverityBadge(severity) ==
  IF severity \in DOMAIN badges THEN badges[severity] ELSE "badge-low"

-----------------------------------------------------------------------------
(* BestPractices: pure parts *)

\* a suggestion; an absent category is ""
Suggestion(c, t) == [category |-> c, text |-> t]

\* { ...suggestion, originalIndex: index }
WithOriginalIndex(suggestion, index) ==
  [f \in DOMAIN suggestion \cup {"originalIndex"} |->
     IF f = "originalIndex" THEN index ELSE suggestion[f]]

\* one step of the reduce: groups is the object built so far, as the sequence
\* of its properties in insertion order
GroupStep(groups, suggestion, index) ==
  LET category == StrOr(suggestion.category, "general")
      item == WithOriginalIndex(suggestion, index)
  IN  IF \E g \in 1..Len(groups) : groups[g].category = category
      THEN [g \in 1..Len(groups) |->
              IF groups[g].category = category
              THEN [groups[g] EXCEPT !.items = Append(@, item)]
              ELSE groups[g]]
      ELSE Append(groups, [category |-> category, items |-> <<item>>])

\* suggestions.reduce(..., {}) over the first n suggestions
RECURSIVE ReduceGroups(_, _)
ReduceGroups(suggestions, n) ==
  IF n = 0 THEN <<>>
  ELSE GroupStep(ReduceGroups(suggestions, n - 1), suggestions[n], n - 1)

\* mutant of groupedSuggestions: every suggestion but the first of a category is dropped
groupedSuggestions_keepsFirst(suggestions) ==
  LET g == ReduceGroups(suggestions, Len(suggestions))
  IN  [k \in 1..Len(g) |-> [g[k] EXCEPT !.items = <<g[k].items[1]>>]]

groupedSuggestions(suggestions) == ReduceGroups(suggestions, Len(suggestions))

categoryOrder ==
  <<"security", "reliability", "optimization", "monitoring", "resource_management",
    "configuration", "consistency", "documentation", "organization", "general">>

\* the groups BestPractices renders, in rendering order:
\* categoryOrder.filter(category => groupedSuggestions[category])
displayedGroups(suggestions) ==
  LET g == groupedSuggestions(suggestions)
      shown == SelectSeq(categoryOrder, LAMBDA c : \E k \in 1..Len(g) : g[k].category = c)
  IN  [j \in 1..Len(shown) |-> g[CHOOSE k \in 1..Len(g) : g[k].category = shown[j]]]

\* Object.values(groups).flat(): the items of all groups, group after group
RECURSIVE Flatten(_)
Flatten(groups) ==
  IF Len(groups) = 0 THEN <<>>
  ELSE groups[1].items \o Flatten(Tail(groups))

-----------------------------------------------------------------------------
(* AIAssistant: pure parts *)

Greeting == [type |-> "assistant", content |-> <<"greeting", "">>]

\* texts the user may have in the input box
Inputs == {"", "  ", "explain the issue", "what is the risk"}

\* String.prototype.trim on those texts
Trim(s) == IF s = "  " THEN "" ELSE s

\* input.toLowerCase().includes(w)
Includes(s, w) == includes(toLowerCase(s), w)

\* generateGeneralResponse: which of its answers is returned
GeneralResponse(question) ==
  IF Includes(question, "risk") \/ Includes(question, "score") THEN <<"general", "risk">>
  ELSE IF Includes(question, "security") \/ Includes(question, "vulnerability") THEN <<"general", "security">>
  ELSE IF Includes(question, "secret") \/ Includes(question, "credential") THEN <<"general", "secret">>
  ELSE IF Includes(question, "best practice") \/ Includes(question, "recommendation")
       THEN <<"general", "best practice">>
  ELSE IF Includes(question, "deploy") \/ Includes(question, "deployment") THEN <<"general", "deploy">>
  ELSE <<"general", "default">>

\* handleSendMessage asks the /explain endpoint
AsksBackend(question, d) ==
  /\ d # Null
  /\ Includes(question, "issue") \/ Includes(question, "problem")
  /\ Len(AllIssues(d)) > 0
  /\ Len(MostCritical(d)) > 0

-----------------------------------------------------------------------------
(* Which views are mounted for given App state *)

\* Dashboard renders IssueSummary and AIExplanation
ResultsShown(t, scanning, d) == t = "dashboard" /\ ~scanning /\ d # Null

NoExplanation == <<"", "">>

\* requests in flight once the view that issued them is unmounted: they stay in
\* flight, and the state setters their continuations call change nothing
Orphaned(requests) == [i \in 1..Len(requests) |-> [live |-> FALSE]]

\* View-local state after App state becomes (t, scanning, d): kept while the
\* view stays mounted, initial otherwise
\* mutant of FilesOnTab: the held files survive the unmounting of Upload
FilesOnTab_kept(t) == files

FilesOnTab(t) == IF t = "upload" THEN files ELSE {}
ErrorOnTab(t) == IF t = "upload" THEN error ELSE ""
ModeOnTab(t) == IF t = "upload" THEN mode ELSE "devops"
ReadsOnTab(t) == IF t = "upload" THEN reads ELSE {}
OrphanReadsOnTab(t) == IF t = "upload" THEN orphanReads ELSE orphanReads + Cardinality(reads)
\* mutant of NetOnTab: unmounting Upload aborts its requests
NetOnTab_cancels(t) == IF t = "upload" THEN net ELSE <<>>

NetOnTab(t) == IF t = "upload" THEN net
               ELSE [i \in 1..Len(net) |-> [net[i] EXCEPT !.live = FALSE]]
FilterOnTab(t) == IF t = "report" THEN filter ELSE "all"
SearchTermOnTab(t) == IF t = "report" THEN searchTerm ELSE ""
SelectedIssueOnTab(t) == IF t = "dashboard" THEN selectedIssue ELSE Null
MessagesOnTab(t) == IF t = "ai-assistant" THEN messages ELSE <<Greeting>>
InputOnTab(t) == IF t = "ai-assistant" THEN input ELSE ""
IsLoadingOnTab(t) == IF t = "ai-assistant" THEN isLoading ELSE FALSE
AssistantNetOnTab(t) == IF t = "ai-assistant" THEN assistantNet ELSE Orphaned(assistantNet)

\* every view-local variable except Upload's error and net follows the mounting
ViewsFollow(t, scanning, d) ==
  /\ files' = FilesOnTab(t)
  /\ mode' = ModeOnTab(t)
  /\ reads' = ReadsOnTab(t)
  /\ orphanReads' = OrphanReadsOnTab(t)
  /\ filter' = FilterOnTab(t)
  /\ searchTerm' = SearchTermOnTab(t)
  /\ selectedIssue' = SelectedIssueOnTab(t)
  /\ isExplaining' = (ResultsShown(t, scanning, d) /\ isExplaining)
  /\ detailedExplanation' = IF ResultsShown(t, scanning, d) THEN detailedExplanation ELSE NoExplanation
  /\ isExpanded' = (ResultsShown(t, scanning, d) /\ isExpanded)
  /\ explainNet' = IF ResultsShown(t, scanning, d) THEN explainNet ELSE Orphaned(explainNet)
  /\ messages' = MessagesOnTab(t)
  /\ input' = InputOnTab(t)
  /\ isLoading' = IsLoadingOnTab(t)
  /\ assistantNet' = AssistantNetOnTab(t)
  /\ selectedMode' = IF t = "upload" THEN ModeOnTab(t) ELSE selectedMode
  /\ explainedIssue' = IF ResultsShown(t, scanning, d) THEN explainedIssue ELSE Null
  /\ lastSelected' = IF t = "upload" THEN lastSelected ELSE {}

\* asynchronous operations in flight: FileReader reads and HTTP requests
AsyncPending ==
  Cardinality(reads) + orphanReads + Len(net) + Len(explainNet) + Len(assistantNet)

-----------------------------------------------------------------------------
(* Initial state: App mounted on the dashboard, nothing uploaded or scanned *)

Init ==
  /\ activeTab = "dashboard"
  /\ scanData = Null
  /\ isScanning = FALSE
  /\ files = {}
  /\ error = ""
  /\ mode = "devops"
  /\ reads = {}
  /\ orphanReads = 0
  /\ net = <<>>
  /\ filter = "all"
  /\ searchTerm = ""
  /\ selectedIssue = Null
  /\ isExplaining = FALSE
  /\ detailedExplanation = NoExplanation
  /\ isExpanded = FALSE
  /\ explainNet = <<>>
  /\ messages = <<Greeting>>
  /\ input = ""
  /\ isLoading = FALSE
  /\ assistantNet = <<>>
  /\ selectedMode = "devops"
  /\ explainedIssue = Null
  /\ lastSelected = {}

-----------------------------------------------------------------------------
(* Navigation *)

\* mutant of setActiveTab: going to the upload tab clears the held result
setActiveTab_clearsResult(t) ==
  /\ activeTab' = t
  /\ scanData' = IF t = "upload" THEN Null ELSE scanData
  /\ UNCHANGED isScanning
  /\ error' = ErrorOnTab(t)
  /\ net' = NetOnTab(t)
  /\ ViewsFollow(t, isScanning, IF t = "upload" THEN Null ELSE scanData)

\* App.setActiveTab(t) with nothing else changing
setActiveTab(t) ==
  /\ activeTab' = t
  /\ UNCHANGED <<scanData, isScanning>>
  /\ error' = ErrorOnTab(t)
  /\ net' = NetOnTab(t)
  /\ ViewsFollow(t, isScanning, scanData)

\* mutant of Sidebar_onClick: the Report item is inert until a result is held, and
\* every item is inert while a scan is running
Sidebar_onClick_gated(t) ==
  /\ t = "report" => scanData # Null
  /\ ~isScanning
  /\ setActiveTab(t)

\* Sidebar: click on a menu item
Sidebar_onClick(t) == setActiveTab(t)

\* Dashboard empty state: the "Upload Files" button
Dashboard_uploadFiles ==
  /\ activeTab = "dashboard"
  /\ ~isScanning
  /\ scanData = Null
  /\ setActiveTab("upload")

-----------------------------------------------------------------------------
(* Upload: file slots *)

\* handleFileSelect / onDrop with one accepted file -> processFile:
\* a FileReader is created and readAsText started.  The dropzone and the
\* fallback input of a slot are rendered only while the slot holds no file.
processFile(k, d) ==
  /\ activeTab = "upload"
  /\ ~Has(files, k)
  /\ AsyncPending < MaxInFlight
  /\ [key |-> k, file |-> d] \notin reads
  /\ reads' = reads \cup {[key |-> k, file |-> d]}
  /\ UNCHANGED <<appVars, files, error, mode, orphanReads, net,
                 reportVars, dashboardVars, assistantVars>>
  /\ lastSelected' = SpreadAssign(lastSelected, k, d)
  /\ UNCHANGED <<selectedMode, explainedIssue>>

\* onDrop with no accepted file
onDrop_rejected(k) ==
  /\ activeTab = "upload"
  /\ ~Has(files, k)
  /\ error' = "No valid files selected"
  /\ UNCHANGED <<appVars, files, mode, reads, orphanReads, net,
                 reportVars, dashboardVars, assistantVars>>
  /\ UNCHANGED historyVars

\* the selection history once read r has completed: kept for the slots that
\* still have a read in flight
SelectionsAfter(r) ==
  IF \E q \in reads \ {r} : q.key = r.key THEN lastSelected ELSE SpreadDelete(lastSelected, r.key)

\* reader.onload of a read started by the mounted Upload
reader_onload(r) ==
  /\ r \in reads
  /\ reads' = reads \ {r}
  /\ files' = SpreadAssign(files, r.key, FileEntry(r.file))
  /\ error' = ""
  /\ UNCHANGED <<appVars, mode, orphanReads, net, reportVars, dashboardVars, assistantVars>>
  /\ lastSelected' = SelectionsAfter(r)
  /\ UNCHANGED <<selectedMode, explainedIssue>>

\* mutant of reader_onerror: the slot receives an entry without content
reader_onerror_storesPartial(r) ==
  /\ r \in reads
  /\ reads' = reads \ {r}
  /\ files' = SpreadAssign(files, r.key, [file |-> r.file, content |-> "", name |-> r.file.name])
  /\ error' = "Failed to read file"
  /\ UNCHANGED <<appVars, mode, orphanReads, net, reportVars, dashboardVars, assistantVars>>
  /\ lastSelected' = SelectionsAfter(r)
  /\ UNCHANGED <<selectedMode, explainedIssue>>

\* reader.onerror of a read started by the mounted Upload
reader_onerror(r) ==
  /\ r \in reads
  /\ reads' = reads \ {r}
  /\ error' = "Failed to read file"
  /\ UNCHANGED <<appVars, files, mode, orphanReads, net,
                 reportVars, dashboardVars, assistantVars>>
  /\ lastSelected' = SelectionsAfter(r)
  /\ UNCHANGED <<selectedMode, explainedIssue>>

\* reader.onload of a read whose Upload has been unmounted: setFiles and
\* setError of that instance change nothing
reader_onload_orphan ==
  /\ orphanReads > 0
  /\ orphanReads' = orphanReads - 1
  /\ UNCHANGED <<appVars, files, error, mode, reads, net,
                 reportVars, dashboardVars, assistantVars>>
  /\ UNCHANGED historyVars

\* reader.onerror of a read whose Upload has been unmounted: setError of
\* that instance changes nothing
reader_onerror_orphan ==
  /\ orphanReads > 0
  /\ orphanReads' = orphanReads - 1
  /\ UNCHANGED <<appVars, files, error, mode, reads, net,
                 reportVars, dashboardVars, assistantVars>>
  /\ UNCHANGED historyVars

\* removeFile: the X button of a held slot
removeFile(k) ==
  /\ activeTab = "upload"
  /\ Has(files, k)
  /\ files' = SpreadDelete(files, k)
  /\ UNCHANGED <<appVars, error, mode, reads, orphanReads, net,
                 reportVars, dashboardVars, assistantVars>>
  /\ UNCHANGED historyVars

\* the Beginner / DevOps buttons
setMode(m) ==
  /\ activeTab = "upload"
  /\ mode' = m
  /\ selectedMode' = m
  /\ UNCHANGED <<explainedIssue, lastSelected>>
  /\ UNCHANGED <<appVars, files, error, reads, orphanReads, net,
                 reportVars, dashboardVars, assistantVars>>

-----------------------------------------------------------------------------
(* Upload: scan *)

\* mutant of handleScan: the empty-selection check is missing
handleScan_noValidation(formData) ==
  /\ activeTab = "upload"
  /\ formData = BuildFormData(files, mode)
  /\ AsyncPending < MaxInFlight
  /\ isScanning' = TRUE
  /\ error' = ""
  /\ net' = Append(net, [live |-> TRUE])
  /\ UNCHANGED <<activeTab, scanData, files, mode, reads, orphanReads,
                 reportVars, dashboardVars, assistantVars>>
  /\ UNCHANGED historyVars

\* handleScan up to its await: the validation return, or scanConfiguration(formData)
\* is called and api.post puts one /scan request with body formData in flight
handleScan(formData) ==
  /\ activeTab = "upload"
  /\ IF Cardinality(Keys(files)) = 0
     THEN /\ formData = <<>>
          /\ error' = "Please upload at least one configuration file"
          /\ UNCHANGED <<isScanning, net>>
     ELSE /\ formData = BuildFormData(files, mode)
          /\ AsyncPending < MaxInFlight
          /\ isScanning' = TRUE
          /\ error' = ""
          /\ net' = Append(net, [live |-> TRUE])
  /\ UNCHANGED <<activeTab, scanData, files, mode, reads, orphanReads,
                 reportVars, dashboardVars, assistantVars>>
  /\ UNCHANGED historyVars

\* mutant of scan_resolved: the result is merged into the held one
scan_resolved_merges(i, doc) ==
  /\ i \in 1..Len(net)
  /\ scanData' = IF scanData = Null THEN doc
                 ELSE [doc EXCEPT !.syntax_errors = scanData.syntax_errors \o doc.syntax_errors]
  /\ activeTab' = "dashboard"
  /\ isScanning' = FALSE
  /\ net' = RemoveAt(NetOnTab("dashboard"), i)
  /\ error' = ErrorOnTab("dashboard")
  /\ ViewsFollow("dashboard", FALSE, doc)

\* handleScan after the await resolves with doc: setScanData, setActiveTab, finally
scan_resolved(i, doc) ==
  /\ i \in 1..Len(net)
  /\ scanData' = doc
  /\ activeTab' = "dashboard"
  /\ isScanning' = FALSE
  /\ net' = RemoveAt(NetOnTab("dashboard"), i)
  /\ error' = ErrorOnTab("dashboard")
  /\ ViewsFollow("dashboard", FALSE, doc)

\* mutant of scan_rejected: setIsScanning(false) is not in a finally block
scan_rejected_noFinally(i, e) ==
  /\ i \in 1..Len(net)
  /\ error' = IF net[i].live THEN ScanErrorText(InterceptorMessage(e)) ELSE error
  /\ net' = RemoveAt(net, i)
  /\ UNCHANGED <<activeTab, scanData, isScanning>>
  /\ ViewsFollow(activeTab, isScanning, scanData)

\* mutant of scan_rejected: a response interceptor sends the failed request again
scan_rejected_retries(i, e) ==
  /\ i \in 1..Len(net)
  /\ error' = IF net[i].live THEN ScanErrorText(InterceptorMessage(e)) ELSE error
  /\ UNCHANGED <<activeTab, scanData, isScanning, net>>
  /\ ViewsFollow(activeTab, isScanning, scanData)

\* handleScan after the await rejects with e: catch, finally
scan_rejected(i, e) ==
  /\ i \in 1..Len(net)
  /\ error' = IF net[i].live THEN ScanErrorText(InterceptorMessage(e)) ELSE error
  /\ isScanning' = FALSE
  /\ net' = RemoveAt(net, i)
  /\ UNCHANGED <<activeTab, scanData>>
  /\ ViewsFollow(activeTab, FALSE, scanData)

-----------------------------------------------------------------------------
(* Report controls: rendered only when a scan result is held *)

Filters == {"all", "critical", "high", "medium", "low"}

SearchTerms == {"", "docker"}

Report_setFilter(f) ==
  /\ activeTab = "report"
  /\ scanData # Null
  /\ filter' = f
  /\ UNCHANGED <<appVars, uploadVars, searchTerm, dashboardVars, assistantVars>>
  /\ UNCHANGED historyVars

Report_setSearchTerm(s) ==
  /\ activeTab = "report"
  /\ scanData # Null
  /\ searchTerm' = s
  /\ UNCHANGED <<appVars, uploadVars, filter, dashboardVars, assistantVars>>
  /\ UNCHANGED historyVars

\* exportReport: builds the download from scanData; no state of the client changes
exportReport ==
  /\ activeTab = "report"
  /\ scanData # Null
  /\ UNCHANGED vars

-----------------------------------------------------------------------------
(* Dashboard: IssueSummary and AIExplanation *)

\* IssueSummary: click on an issue -> onIssueSelect(issue) = setSelectedIssue(issue)
IssueSummary_onIssueSelect(issue) ==
  /\ ResultsShown(activeTab, isScanning, scanData)
  /\ issue \in IssueSet(scanData)
  /\ selectedIssue' = issue
  /\ UNCHANGED <<appVars, uploadVars, reportVars, isExplaining, detailedExplanation,
                 isExpanded, explainNet, assistantVars>>
  /\ UNCHANGED historyVars

\* AIExplanation: the chevron of the Selected Issue section
AIExplanation_toggleExpanded ==
  /\ ResultsShown(activeTab, isScanning, scanData)
  /\ selectedIssue # Null
  /\ isExpanded' = ~isExpanded
  /\ UNCHANGED <<appVars, uploadVars, reportVars, selectedIssue, isExplaining,
                 detailedExplanation, explainNet, assistantVars>>
  /\ UNCHANGED historyVars

\* handleExplainIssue up to its await; the button is rendered for a selected
\* issue and disabled while isExplaining
handleExplainIssue(request) ==
  /\ ResultsShown(activeTab, isScanning, scanData)
  /\ selectedIssue # Null
  /\ ~isExplaining
  /\ AsyncPending < MaxInFlight
  /\ request = ExplainRequest(selectedIssue)
  /\ isExplaining' = TRUE
  /\ explainNet' = Append(explainNet, [issue |-> selectedIssue, live |-> TRUE])
  /\ UNCHANGED <<appVars, uploadVars, reportVars, selectedIssue, detailedExplanation,
                 isExpanded, assistantVars>>
  /\ UNCHANGED historyVars

\* handleExplainIssue after the await resolves with {explanation: text}
explain_resolved(i, text) ==
  /\ i \in 1..Len(explainNet)
  /\ IF explainNet[i].live
     THEN /\ detailedExplanation' = <<"", text>>
          /\ isExpanded' = TRUE
          /\ isExplaining' = FALSE
     ELSE UNCHANGED <<detailedExplanation, isExpanded, isExplaining>>
  /\ explainNet' = RemoveAt(explainNet, i)
  /\ UNCHANGED <<appVars, uploadVars, reportVars, selectedIssue, assistantVars>>
  /\ explainedIssue' = IF explainNet[i].live THEN explainNet[i].issue ELSE explainedIssue
  /\ UNCHANGED <<selectedMode, lastSelected>>

\* mutant of explain_rejected: setIsExplaining(false) is not in a finally block
explain_rejected_keepsSpinner(i, e) ==
  /\ i \in 1..Len(explainNet)
  /\ IF explainNet[i].live
     THEN /\ detailedExplanation' = <<"Failed to get explanation: ", InterceptorMessage(e)>>
          /\ isExpanded' = TRUE
          /\ UNCHANGED isExplaining
     ELSE UNCHANGED <<detailedExplanation, isExpanded, isExplaining>>
  /\ explainNet' = RemoveAt(explainNet, i)
  /\ UNCHANGED <<appVars, uploadVars, reportVars, selectedIssue, assistantVars>>
  /\ explainedIssue' = IF explainNet[i].live THEN explainNet[i].issue ELSE explainedIssue
  /\ UNCHANGED <<selectedMode, lastSelected>>

\* handleExplainIssue after the await rejects with e
explain_rejected(i, e) ==
  /\ i \in 1..Len(explainNet)
  /\ IF explainNet[i].live
     THEN /\ detailedExplanation' = <<"Failed to get explanation: ", InterceptorMessage(e)>>
          /\ isExpanded' = TRUE
          /\ isExplaining' = FALSE
     ELSE UNCHANGED <<detailedExplanation, isExpanded, isExplaining>>
  /\ explainNet' = RemoveAt(explainNet, i)
  /\ UNCHANGED <<appVars, uploadVars, reportVars, selectedIssue, assistantVars>>
  /\ explainedIssue' = IF explainNet[i].live THEN explainNet[i].issue ELSE explainedIssue
  /\ UNCHANGED <<selectedMode, lastSelected>>

-----------------------------------------------------------------------------
(* AIAssistant *)

\* typing into the input (disabled while isLoading) or clicking a quick question
AIAssistant_setInput(text) ==
  /\ activeTab = "ai-assistant"
  /\ ~isLoading
  /\ input' = text
  /\ UNCHANGED <<appVars, uploadVars, reportVars, dashboardVars, messages, isLoading,
                 assistantNet>>
  /\ UNCHANGED historyVars

\* handleSendMessage up to the point where it waits for the network: the guard,
\* the user message, and either the locally generated answer (no request; the
\* awaits of that path complete without any other event in between) or one
\* /explain request for the first critical or high issue
handleSendMessage(request) ==
  /\ activeTab = "ai-assistant"
  /\ Len(messages) + 2 <= MaxMessages
  /\ IF Trim(input) = "" \/ isLoading
     THEN /\ request = Null
          /\ UNCHANGED <<messages, input, isLoading, assistantNet>>
     ELSE /\ input' = ""
          /\ IF AsksBackend(input, scanData)
             THEN /\ AsyncPending < MaxInFlight
                  /\ request = ExplainRequest(MostCritical(scanData)[1])
                  /\ messages' = Append(messages, [type |-> "user", content |-> <<"input", Trim(input)>>])
                  /\ isLoading' = TRUE
                  /\ assistantNet' = Append(assistantNet, [question |-> Trim(input), live |-> TRUE])
             ELSE /\ request = Null
                  /\ messages' = messages \o <<[type |-> "user", content |-> <<"input", Trim(input)>>],
                                               [type |-> "assistant", content |-> GeneralResponse(input)]>>
                  /\ isLoading' = FALSE
                  /\ UNCHANGED assistantNet
  /\ UNCHANGED <<appVars, uploadVars, reportVars, dashboardVars>>
  /\ UNCHANGED historyVars

\* handleSendMessage after explainIssue resolves with {explanation: text}
assistant_resolved(i, text) ==
  /\ i \in 1..Len(assistantNet)
  /\ IF assistantNet[i].live
     THEN /\ messages' = Append(messages, [type |-> "assistant", content |-> <<"explanation", text>>])
          /\ isLoading' = FALSE
     ELSE UNCHANGED <<messages, isLoading>>
  /\ assistantNet' = RemoveAt(assistantNet, i)
  /\ UNCHANGED <<appVars, uploadVars, reportVars, dashboardVars, input>>
  /\ UNCHANGED historyVars

\* mutant of assistant_rejected: the failure is swallowed without an apology
assistant_rejected_silent(i, e) ==
  /\ i \in 1..Len(assistantNet)
  /\ IF assistantNet[i].live
     THEN /\ isLoading' = FALSE
          /\ UNCHANGED messages
     ELSE UNCHANGED <<messages, isLoading>>
  /\ assistantNet' = RemoveAt(assistantNet, i)
  /\ UNCHANGED <<appVars, uploadVars, reportVars, dashboardVars, input>>
  /\ UNCHANGED historyVars

\* handleSendMessage after explainIssue rejects with e
assistant_rejected(i, e) ==
  /\ i \in 1..Len(assistantNet)
  /\ IF assistantNet[i].live
     THEN /\ messages' = Append(messages, [type |-> "assistant", content |-> <<"apology", InterceptorMessage(e)>>])
          /\ isLoading' = FALSE
     ELSE UNCHANGED <<messages, isLoading>>
  /\ assistantNet' = RemoveAt(assistantNet, i)
  /\ UNCHANGED <<appVars, uploadVars, reportVars, dashboardVars, input>>
  /\ UNCHANGED historyVars

\* the request bodies the two /explain callers can post in the current state
ExplainRequestsNow ==
  {Null} \cup {ExplainRequest(AllIssues(scanData)[j]) : j \in 1..Len(AllIssues(scanData))}

-----------------------------------------------------------------------------

Next ==
  \/ \E t \in Tabs : Sidebar_onClick(t)
  \/ Dashboard_uploadFiles
  \/ \E k \in Slots : \E d \in Offered(k) : processFile(k, d)
  \/ \E k \in Slots : onDrop_rejected(k)
  \/ \E r \in reads : reader_onload(r)
  \/ \E r \in reads : reader_onerror(r)
  \/ reader_onerror_orphan
  \/ reader_onload_orphan
  \/ \E k \in Slots : removeFile(k)
  \/ \E m \in Modes : setMode(m)
  \/ \E formData \in {<<>>, BuildFormData(files, mode)} : handleScan(formData)
  \/ \E i \in 1..Len(net), doc \in ScanResults : scan_resolved(i, doc)
  \/ \E i \in 1..Len(net), e \in AxiosErrors : scan_rejected(i, e)
  \/ \E f \in Filters : Report_setFilter(f)
  \/ \E s \in SearchTerms : Report_setSearchTerm(s)
  \/ exportReport
  \/ \E issue \in IssueSet(scanData) : IssueSummary_onIssueSelect(issue)
  \/ AIExplanation_toggleExpanded
  \/ \E request \in ExplainRequestsNow : handleExplainIssue(request)
  \/ \E i \in 1..Len(explainNet), e \in AxiosErrors : explain_rejected(i, e)
  \/ \E i \in 1..Len(explainNet), text \in Explanations : explain_resolved(i, text)
  \/ \E text \in Inputs : AIAssistant_setInput(text)
  \/ \E request \in ExplainRequestsNow : handleSendMessage(request)
  \/ \E i \in 1..Len(assistantNet), e \in AxiosErrors : assistant_rejected(i, e)
  \/ \E i \in 1..Len(assistantNet), text \in Explanations : assistant_resolved(i, text)

Spec == Init /\ [][Next]_vars

\* a request of the AIAssistant settles
assistant_settled(i) ==
  \/ \E text \in Explanations : assistant_resolved(i, text)
  \/ \E e \in AxiosErrors : assistant_rejected(i, e)

\* The client with the axios timeout taken into account: a request in flight
\* is answered or fails within the timeout, so the continuation of
\* handleSendMessage is eventually run
FairSpec == Spec /\ WF_vars(\E i \in 1..Len(assistantNet) : assistant_settled(i))

-----------------------------------------------------------------------------
(* The Report over a range of result documents *)

\* issues a result document may list
ReportIssues ==
  {Issue("Root", "", "critical", "Dockerfile"),
   Issue("", "as ROOT", "Critical", "a.yml"),
   Issue("tag", "", "high", ""),
   Issue("", "", "", "Root.env")}

\* arrays of up to MaxIssues issues
IssueLists == UNION {[1..n -> ReportIssues] : n \in 0..MaxIssues}

\* <<>> for a property the document lacks, <<a>> for one holding the array a
Optional(S) == {<<>>} \cup {<<a>> : a \in S}

\* the document with the given optional arrays
MakeDoc(se, si, lc, sd) ==
  LET present == {f \in {"syntax_errors", "security_issues", "logic_conflicts", "secrets_detected"} :
                    CASE f = "syntax_errors" -> se # <<>>
                      [] f = "security_issues" -> si # <<>>
                      [] f = "logic_conflicts" -> lc # <<>>
                      [] f = "secrets_detected" -> sd # <<>>}
  IN  [f \in present \cup {"risk_score"} |->
         CASE f = "syntax_errors" -> se[1]
           [] f = "security_issues" -> si[1]
           [] f = "logic_conflicts" -> lc[1]
           [] f = "secrets_detected" -> sd[1]
           [] f = "risk_score" -> 0]

ReportDocs ==
  {MakeDoc(se, si, lc, sd) :
     se \in Optional(IssueLists),
     si \in Optional({<<Issue("Root", "", "critical", "Dockerfile")>>,
                      <<Issue("tag", "", "high", ""),
                        Issue("", "as ROOT", "Critical", "a.yml")>>}),
     lc \in Optional({<<Issue("tag", "", "high", "")>>}),
     sd \in Optional({<<>>, <<Issue("", "", "", "Root.env")>>})}

\* texts typed into the Report's search box
ReportTerms == {"", "root", "ROOT", "tag", "oo"}

\* the Report tab shown for some result document
ReportInit ==
  /\ activeTab = "report"
  /\ scanData \in ReportDocs
  /\ isScanning = FALSE
  /\ files = {}
  /\ error = ""
  /\ mode = "devops"
  /\ reads = {}
  /\ orphanReads = 0
  /\ net = <<>>
  /\ filter = "all"
  /\ searchTerm = ""
  /\ selectedIssue = Null
  /\ isExplaining = FALSE
  /\ detailedExplanation = NoExplanation
  /\ isExpanded = FALSE
  /\ explainNet = <<>>
  /\ messages = <<Greeting>>
  /\ input = ""
  /\ isLoading = FALSE
  /\ assistantNet = <<>>
  /\ selectedMode = "devops"
  /\ explainedIssue = Null
  /\ lastSelected = {}

ReportNext ==
  \/ \E f \in Filters : Report_setFilter(f)
  \/ \E s \in ReportTerms : Report_setSearchTerm(s)
  \/ exportReport

ReportSpec == ReportInit /\ [][ReportNext]_vars

-----------------------------------------------------------------------------
(* The Dashboard over a range of result documents *)

\* severities as the backend may write them; "" is an absent severity
Severities == {"critical", "High", "ERROR", "Warning", "medium", "info", ""}

\* arrays of up to MaxIssues issues of those severities
SeverityLists == UNION {[1..n -> {Issue("port", "", sv, "") : sv \in Severities}] : n \in 0..MaxIssues}

\* best-practice suggestions a result document may carry
Suggestions ==
  {Suggestion("security", "pin the image"), Suggestion("security", "drop root"),
   Suggestion("reliability", "add a healthcheck"), Suggestion("", "add labels"),
   Suggestion("performance", "use a smaller base")}

SuggestionLists == UNION {[1..n -> Suggestions] : n \in 0..MaxSuggestions}

\* scanData.best_practices || []
best_practices(d) == OrEmpty(d, "best_practices")

DashboardDocs ==
  {[syntax_errors |-> se, secrets_detected |-> <<Issue("api key", "", "low", ".env")>>,
    best_practices |-> <<Suggestion("security", "pin the image")>>] : se \in SeverityLists}
  \cup {[syntax_errors |-> se, risk_score |-> 0] : se \in SeverityLists}
  \cup {[security_issues |-> <<Issue("port", "", "High", "")>>, best_practices |-> bp] :
          bp \in SuggestionLists}

\* the Dashboard shown for some result document
DashboardInit ==
  /\ activeTab = "dashboard"
  /\ scanData \in DashboardDocs
  /\ isScanning = FALSE
  /\ files = {}
  /\ error = ""
  /\ mode = "devops"
  /\ reads = {}
  /\ orphanReads = 0
  /\ net = <<>>
  /\ filter = "all"
  /\ searchTerm = ""
  /\ selectedIssue = Null
  /\ isExplaining = FALSE
  /\ detailedExplanation = NoExplanation
  /\ isExpanded = FALSE
  /\ explainNet = <<>>
  /\ messages = <<Greeting>>
  /\ input = ""
  /\ isLoading = FALSE
  /\ assistantNet = <<>>
  /\ selectedMode = "devops"
  /\ explainedIssue = Null
  /\ lastSelected = {}

DashboardNext ==
  \/ \E issue \in IssueSet(scanData) : IssueSummary_onIssueSelect(issue)
  \/ AIExplanation_toggleExpanded

DashboardSpec == DashboardInit /\ [][DashboardNext]_vars

-----------------------------------------------------------------------------
(* Properties *)

Held(k) == \E p \in files : p.key = k

HeldSlots == {k \in Slots : Held(k)}

\* number of parts of form fd named n
PartCount(fd, n) == Cardinality({j \in 1..Len(fd) : fd[j].name = n})

\* the forms handleScan can hand to scanConfiguration in the current state
FormsNow == {<<>>, BuildFormData(files, mode)}

\* C1: at most one /scan request is outstanding at any time.
C1_AtMostOneOutstandingScan == Len(net) <= 1

\* C2: a scan triggered with all three slots Empty ends in the validation error,
\* issues no request and leaves isScanning, scanData and activeTab unchanged; the
\* Start Analysis button is enabled exactly when at least one slot is Held.
C2_EmptyScanIsValidationError ==
  [][/\ (~ScanButtonDisabled) <=> (HeldSlots # {})
     /\ \A fd \in FormsNow :
          (handleScan(fd) /\ HeldSlots = {}) =>
             /\ error' = "Please upload at least one configuration file"
             /\ net' = net
             /\ isScanning' = isScanning
             /\ scanData' = scanData
             /\ activeTab' = activeTab]_vars

C2_Witness ==
  /\ error = "Please upload at least one configuration file"
  /\ HeldSlots = {}
  /\ ScanButtonDisabled

\* C3: a scan triggered with at least one Held slot issues exactly one request,
\* whose form has exactly one part per Held slot (carrying that slot's File), no
\* part for an Empty slot, and exactly one mode part carrying the selected mode.
C3_FormPartsAreHeldSlotsPlusMode ==
  [][\A fd \in FormsNow :
       (handleScan(fd) /\ HeldSlots # {}) =>
          /\ Len(net') = Len(net) + 1
          /\ Len(fd) = Cardinality(HeldSlots) + 1
          /\ PartCount(fd, "mode") = 1
          /\ \A k \in Slots : PartCount(fd, k) = IF Held(k) THEN 1 ELSE 0
          /\ \A j \in 1..Len(fd) :
               IF fd[j].name = "mode" THEN fd[j].value = mode
               ELSE [key |-> fd[j].name, value |-> FileEntry(fd[j].value)] \in files]_vars

C3_Witness ==
  /\ Cardinality(HeldSlots) = 2
  /\ net # <<>>
  /\ net[Len(net)].live
  /\ isScanning

\* C4: isScanning becomes true when a request is issued and is false after every
\* step in which a request settles, by success or by failure.
C4_IsScanningFalseAfterSettle ==
  [][/\ Len(net') > Len(net) => isScanning'
     /\ Len(net') < Len(net) => ~isScanning']_vars

C4_Witness ==
  /\ scanData # Null
  /\ error = "Network Error"
  /\ ~isScanning

\* C5: a failed scan leaves scanData and activeTab unchanged and makes the
\* displayed Upload view's error message the failure's message, or the fallback.
C5_FailureSurfacesMessage ==
  [][\A i \in 1..Len(net), e \in AxiosErrors :
       scan_rejected(i, e) =>
          /\ scanData' = scanData
          /\ activeTab' = activeTab
          /\ activeTab = "upload" =>
               error' = (IF InterceptorMessage(e) # "" THEN InterceptorMessage(e)
                         ELSE "Scan failed. Please try again.")]_vars

\* C6: a successful scan replaces scanData by the returned document as a whole
\* and makes dashboard the active tab; scanData is never a mixture of documents.
C6_SuccessReplacesScanData ==
  [][/\ \A i \in 1..Len(net), doc \in ScanResults :
          scan_resolved(i, doc) => (scanData' = doc /\ activeTab' = "dashboard")
     /\ scanData' = Null \/ scanData' \in ScanResults]_vars

C6_Witness ==
  /\ scanData \in ScanResults
  /\ activeTab = "dashboard"
  /\ ~isScanning

\* C7: scanData changes only in a step in which a request settles with a result
\* document; no other step changes it, and once non-null it is never null again.
C7_ScanDataChangesOnlyOnSuccess ==
  [][/\ scanData' # scanData => (Len(net') < Len(net) /\ scanData' \in ScanResults)
     /\ scanData # Null => scanData' # Null]_vars

C7_Witness ==
  /\ scanData # Null
  /\ activeTab = "upload"
  /\ HeldSlots # {}
  /\ error = "Network Error"

\* C8: each slot holds at most one UploadedFile; a completed read replaces the
\* entry of its slot by the new file's entry as a whole and leaves the other
\* slots unchanged; removing a file leaves the other slots unchanged.
C8_OneFilePerSlot ==
  [][/\ \A k \in Slots : Cardinality({p \in files' : p.key = k}) <= 1
     /\ Keys(files') \subseteq Slots
     /\ \A r \in reads :
          reader_onload(r) =>
             /\ {p \in files' : p.key = r.key}
                  = {[key |-> r.key,
                      value |-> [file |-> r.file, content |-> r.file.text, name |-> r.file.name]]}
             /\ {p \in files' : p.key # r.key} = {p \in files : p.key # r.key}
     /\ \A k \in Slots :
          removeFile(k) =>
             /\ ~\E p \in files' : p.key = k
             /\ {p \in files' : p.key # k} = {p \in files : p.key # k}]_vars

C8_Witness ==
  /\ Cardinality(HeldSlots) >= 2
  /\ \E r \in reads : Held(r.key) /\ Get(files, r.key).file # r.file

\* C9 as claimed: whenever a read fails while an Upload view is displayed, the
\* slots stay as they were and a user-visible error message is set.
C9_ReadFailureSetsError ==
  [][((reader_onerror_orphan \/ \E r \in reads : reader_onerror(r)) /\ activeTab = "upload")
        => (files' = files /\ error' = "Failed to read file")]_vars

\* C9 as amended: a failed read of the mounted Upload view leaves every slot as
\* it was and sets the error message; a failed read of an unmounted Upload view
\* changes neither the slots nor the error message.
C9_ReadFailureKeepsSlots ==
  [][/\ \A r \in reads :
          reader_onerror(r) => (files' = files /\ error' = "Failed to read file")
     /\ reader_onerror_orphan => (files' = files /\ error' = error)]_vars

C9_Witness ==
  /\ error = "Failed to read file"
  /\ \E k \in Slots : ~Held(k)
  /\ \E k \in Slots : Held(k)

\* C10 as claimed: once handleScan has issued its request, every slot is Empty.
C10_FilesDiscardedOnSubmit ==
  [][Len(net') > Len(net) => files' = {}]_vars

\* C10 as amended: held files are discarded exactly when the Upload view
\* unmounts: a successful scan leaves every slot Empty, while issuing the
\* request and a failed scan leave the held files in place.
C10_FilesDiscardedOnUnmountOnly ==
  [][/\ activeTab' # "upload" => files' = {}
     /\ \A i \in 1..Len(net), doc \in ScanResults : scan_resolved(i, doc) => files' = {}
     /\ \A i \in 1..Len(net), e \in AxiosErrors : scan_rejected(i, e) => files' = files
     /\ \A fd \in FormsNow : handleScan(fd) => files' = files]_vars

C10_Witness ==
  /\ error = "Network Error"
  /\ HeldSlots # {}
  /\ net # <<>>
  /\ net[Len(net)].live

\* C11 as claimed: a click on a Sidebar item changes activeTab and nothing else.
C11_NavigationChangesActiveTabOnly ==
  [][\A t \in Tabs :
       Sidebar_onClick(t) =>
          UNCHANGED <<scanData, isScanning, uploadVars, reportVars, dashboardVars, assistantVars>>]_vars

\* C11 as amended: activeTab starts as dashboard and is always one of the four
\* tabs; in every state each of the four Sidebar items can be clicked, whatever
\* scanData and isScanning are; the click makes its tab active, leaves scanData
\* and isScanning unchanged and aborts no request, changes nothing at all when
\* the tab was already active, and otherwise leaves the local state of every
\* view other than the new one at its initial values.
C11_NavigationKeepsSharedState ==
  /\ activeTab = "dashboard"
  /\ [](activeTab \in Tabs /\ \A t \in Tabs : ENABLED Sidebar_onClick(t))
  /\ [][\A t \in Tabs :
          Sidebar_onClick(t) =>
             /\ activeTab' = t
             /\ scanData' = scanData
             /\ isScanning' = isScanning
             /\ Len(net') = Len(net)
             /\ t = activeTab => UNCHANGED vars
             /\ t # "upload" => (files' = {} /\ error' = "" /\ mode' = "devops")
             /\ t # "report" => (filter' = "all" /\ searchTerm' = "")
             /\ t # "dashboard" => selectedIssue' = Null
             /\ t # "ai-assistant" => (messages' = <<Greeting>> /\ input' = "")]_vars

C11_Witness ==
  /\ activeTab = "report"
  /\ scanData = Null
  /\ isScanning

\* C12: changing tab aborts no /scan request; a request that resolves after its
\* Upload view was left is applied all the same: scanData becomes its document
\* and dashboard the active tab, so of several requests the last to resolve
\* determines scanData.
C12_ResponseAppliedAfterNavigation ==
  /\ [](\A i \in 1..Len(net), doc \in ScanResults : ENABLED scan_resolved(i, doc))
  /\ [][/\ \A t \in Tabs : Sidebar_onClick(t) => Len(net') = Len(net)
        /\ \A i \in 1..Len(net), doc \in ScanResults :
             (scan_resolved(i, doc) /\ ~net[i].live) =>
                (scanData' = doc /\ activeTab' = "dashboard" /\ Len(net') = Len(net) - 1)]_vars

C12_Witness ==
  /\ scanData # Null
  /\ activeTab = "report"
  /\ net # <<>>
  /\ ~net[1].live

\* length of the array f of document d, 0 when d lacks it
FieldLen(d, f) == IF f \in DOMAIN d THEN Len(d[f]) ELSE 0

\* the k-th smallest member of the set S of numbers
Kth(S, k) == CHOOSE j \in S : Cardinality({m \in S : m <= j}) = k

\* the elements of x at the positions idx, in the order of x
Picked(x, idx) == [k \in 1..Cardinality(idx) |-> x[Kth(idx, k)]]

\* term occurs in text at some position when letter case is disregarded
OccursIgnoringCase(text, term) ==
  \E p \in 0..(Len(text) - Len(term)) :
    \A k \in 1..Len(term) : LowerChar(Char(text, p + k)) = LowerChar(Char(term, k))

\* C13: the aggregated issue list is syntax_errors, then security_issues, then
\* logic_conflicts, then secrets_detected, each array in its own order and a
\* missing array counting as empty; its length is the sum of the four lengths.
C13_AggregationIsOrderedConcatenation ==
  LET a == AllIssues(scanData)
      n1 == FieldLen(scanData, "syntax_errors")
      n2 == FieldLen(scanData, "security_issues")
      n3 == FieldLen(scanData, "logic_conflicts")
      n4 == FieldLen(scanData, "secrets_detected")
  IN  /\ Len(a) = n1 + n2 + n3 + n4
      /\ \A j \in 1..n1 : a[j] = scanData.syntax_errors[j]
      /\ \A j \in 1..n2 : a[n1 + j] = scanData.security_issues[j]
      /\ \A j \in 1..n3 : a[n1 + n2 + j] = scanData.logic_conflicts[j]
      /\ \A j \in 1..n4 : a[n1 + n2 + n3 + j] = scanData.secrets_detected[j]

C13_Witness ==
  /\ "logic_conflicts" \notin DOMAIN scanData
  /\ FieldLen(scanData, "syntax_errors") = 2
  /\ FieldLen(scanData, "security_issues") = 1
  /\ FieldLen(scanData, "secrets_detected") = 1
  /\ scanData.syntax_errors[1].severity = "high"
  /\ scanData.security_issues[1].severity = "critical"
  /\ filter = "high"

\* C14: filtering by critical, high, medium or low keeps exactly the issues whose
\* severity is that very string, in their original order; filtering by all
\* returns the list unchanged.
C14_FilterIsExactSeverityMatch ==
  LET a == AllIssues(scanData)
  IN  \A f \in Filters :
        filterIssues(a, f) =
          IF f = "all" THEN a
          ELSE Picked(a, {j \in 1..Len(a) : a[j].severity = f})

C14_Witness ==
  /\ filter = "critical"
  /\ \E j \in 1..Len(AllIssues(scanData)) : AllIssues(scanData)[j].severity = "Critical"
  /\ \E j \in 1..Len(AllIssues(scanData)) : AllIssues(scanData)[j].severity = "critical"
  /\ Len(filterIssues(AllIssues(scanData), filter)) = 2
  /\ Len(AllIssues(scanData)) >= 4

\* C15: searching keeps exactly the issues in whose message, description or file
\* the term occurs when letter case is disregarded, in their original order; the
\* empty term returns the list unchanged; the displayed list is the search
\* applied to the result of the severity filter.
C15_SearchIsCaseInsensitiveSubstring ==
  LET a == AllIssues(scanData)
      Matches(issue, term) ==
        \/ OccursIgnoringCase(issue.message, term)
        \/ OccursIgnoringCase(issue.description, term)
        \/ OccursIgnoringCase(issue.file, term)
      b == filterIssues(a, filter)
  IN  /\ searchIssues(a, searchTerm) = Picked(a, {j \in 1..Len(a) : Matches(a[j], searchTerm)})
      /\ searchIssues(a, "") = a
      /\ filteredIssues = Picked(b, {j \in 1..Len(b) : Matches(b[j], searchTerm)})

C15_Witness ==
  /\ searchTerm = "ROOT"
  /\ filter = "critical"
  /\ Len(AllIssues(scanData)) >= 4
  /\ Len(filteredIssues) >= 1
  /\ Len(filteredIssues) < Len(searchIssues(AllIssues(scanData), searchTerm))
  /\ Len(searchIssues(AllIssues(scanData), searchTerm)) < Len(AllIssues(scanData))

\* the preferred display list of best-practice categories
PreferredCategories ==
  {"security", "reliability", "optimization", "monitoring", "resource_management",
   "configuration", "consistency", "documentation", "organization"}

\* the position in categoryOrder of category c
OrderIndex(c) == CHOOSE j \in 1..Len(categoryOrder) : categoryOrder[j] = c

\* an item without its originalIndex
Bare(item) == [f \in DOMAIN item \ {"originalIndex"} |-> item[f]]

\* groups with the originalIndex of every item removed
BareGroups(groups) ==
  [g \in 1..Len(groups) |->
     [category |-> groups[g].category,
      items |-> [k \in 1..Len(groups[g].items) |-> Bare(groups[g].items[k])]]]

\* C16: every suggestion whose category is missing or is not in the preferred
\* list is displayed under the general group, and the groups are displayed in
\* the preferred order.
C16_UnlistedCategoryUnderGeneral ==
  LET sg == best_practices(scanData)
      shown == displayedGroups(sg)
  IN  /\ \A j \in 1..Len(sg) :
           sg[j].category \notin PreferredCategories =>
             \E g \in 1..Len(shown) :
               /\ shown[g].category = "general"
               /\ \E k \in 1..Len(shown[g].items) : shown[g].items[k].originalIndex = j - 1
      /\ \A g, h \in 1..Len(shown) :
           g < h => OrderIndex(shown[g].category) < OrderIndex(shown[h].category)

\* C17 as claimed: grouping the flattened result of a grouping yields that very
\* grouping again.
C17_RegroupingIsIdentity ==
  LET g == groupedSuggestions(best_practices(scanData))
  IN  groupedSuggestions(Flatten(g)) = g

\* C17 as amended: grouping the flattened result of a grouping yields the same
\* groups in the same order with the same suggestions in the same order, each
\* item's originalIndex being its position in the flattened list; each group
\* holds its suggestions in input order; the groups hold as many items as there
\* are suggestions.
C17_RegroupingKeepsGroupsAndOrder ==
  LET sg == best_practices(scanData)
      g == groupedSuggestions(sg)
      flat == Flatten(g)
      again == groupedSuggestions(flat)
  IN  /\ BareGroups(again) = BareGroups(g)
      /\ \A j \in 1..Len(flat) :
           \E k \in 1..Len(again) : \E m \in 1..Len(again[k].items) :
             /\ again[k].items[m].originalIndex = j - 1
             /\ Bare(again[k].items[m]) = Bare(flat[j])
      /\ \A k \in 1..Len(g) :
           /\ \A m \in 1..Len(g[k].items) :
                LET item == g[k].items[m]
                IN  /\ item.originalIndex \in 0..(Len(sg) - 1)
                    /\ Bare(item) = sg[item.originalIndex + 1]
                    /\ StrOr(item.category, "general") = g[k].category
           /\ \A m, n \in 1..Len(g[k].items) :
                m < n => g[k].items[m].originalIndex < g[k].items[n].originalIndex
      /\ Len(flat) = Len(sg)

C17_Witness ==
  /\ Len(best_practices(scanData)) = 3
  /\ best_practices(scanData)[1].category = "security"
  /\ best_practices(scanData)[2].category = "reliability"
  /\ best_practices(scanData)[3].category = "security"
  /\ selectedIssue # Null

\* C18: the Critical/High number counts the issues of the four categories whose
\* lower-cased severity is critical, high or error, the Medium number those
\* whose lower-cased severity is medium or warning; an issue of any other or of
\* no severity is counted by neither, so the two numbers together never exceed
\* the total.
C18_SummaryCountsIgnoreCase ==
  LET a == AllIssues(scanData)
      Lowered(j) == toLowerCase(a[j].severity)
  IN  /\ CriticalHighCount(scanData)
           = Cardinality({j \in 1..Len(a) : Lowered(j) \in {"critical", "high", "error"}})
      /\ MediumCount(scanData)
           = Cardinality({j \in 1..Len(a) : Lowered(j) \in {"medium", "warning"}})
      /\ totalIssues(scanData) = Len(a)
      /\ CriticalHighCount(scanData) + MediumCount(scanData)
           = Len(a) - Cardinality({j \in 1..Len(a) :
                                     Lowered(j) \notin {"critical", "high", "error", "medium", "warning"}})
      /\ CriticalHighCount(scanData) + MediumCount(scanData) <= totalIssues(scanData)

C18_Witness ==
  /\ totalIssues(scanData) = 3
  /\ CriticalHighCount(scanData) = 1
  /\ MediumCount(scanData) = 1
  /\ \E j \in 1..Len(AllIssues(scanData)) : AllIssues(scanData)[j].severity = "ERROR"
  /\ \E j \in 1..Len(AllIssues(scanData)) : AllIssues(scanData)[j].severity = "Warning"
  /\ selectedIssue # Null

\* all requests in flight
InFlight == Len(net) + Len(explainNet) + Len(assistantNet)

\* C19 as claimed: whenever an /explain request fails while the kind of view that
\* issued it is displayed, that view shows the failure: AIExplanation's text
\* becomes the failure text, its panel is expanded and isExplaining is false;
\* AIAssistant gets an apology message appended and isLoading is false.
C19_ExplainFailureShownInView ==
  [][/\ \A i \in 1..Len(explainNet), e \in AxiosErrors :
          (explain_rejected(i, e) /\ ResultsShown(activeTab, isScanning, scanData)) =>
             /\ detailedExplanation' = <<"Failed to get explanation: ", InterceptorMessage(e)>>
             /\ isExpanded'
             /\ ~isExplaining'
     /\ \A i \in 1..Len(assistantNet), e \in AxiosErrors :
          (assistant_rejected(i, e) /\ activeTab = "ai-assistant") =>
             /\ messages' = Append(messages, [type |-> "assistant",
                                               content |-> <<"apology", InterceptorMessage(e)>>])
             /\ ~isLoading']_vars

\* C19 as amended: a failed /explain request of a view that is still mounted is
\* shown by that view (AIExplanation: failure text, panel expanded, isExplaining
\* false; AIAssistant: apology appended, isLoading false); a failed request of
\* a view that has been unmounted changes nothing; in either case the failure
\* ends there: scanData, activeTab and isScanning are unchanged, the request is
\* gone and no other request is issued.
C19_ExplainFailureCaughtAtView ==
  [][/\ \A i \in 1..Len(explainNet), e \in AxiosErrors :
          explain_rejected(i, e) =>
             /\ IF explainNet[i].live
                THEN /\ detailedExplanation' = <<"Failed to get explanation: ", InterceptorMessage(e)>>
                     /\ isExpanded'
                     /\ ~isExplaining'
                ELSE UNCHANGED <<detailedExplanation, isExpanded, isExplaining>>
             /\ UNCHANGED <<appVars, uploadVars, reportVars, selectedIssue, assistantVars>>
             /\ InFlight' = InFlight - 1
     /\ \A i \in 1..Len(assistantNet), e \in AxiosErrors :
          assistant_rejected(i, e) =>
             /\ IF assistantNet[i].live
                THEN /\ messages' = Append(messages, [type |-> "assistant",
                                                      content |-> <<"apology", InterceptorMessage(e)>>])
                     /\ ~isLoading'
                ELSE UNCHANGED <<messages, isLoading>>
             /\ UNCHANGED <<appVars, uploadVars, reportVars, dashboardVars, input>>
             /\ InFlight' = InFlight - 1]_vars

C19_Witness ==
  /\ detailedExplanation = <<"Failed to get explanation: ", "Network Error">>
  /\ isExpanded
  /\ ~isExplaining
  /\ selectedIssue # Null
  /\ explainNet = <<>>

\* C20: a call of scanConfiguration or explainIssue puts exactly one request in
\* flight, and only such a call puts a request in flight; a failure of a request
\* ends that request and issues no other one.
C20_NoAutomaticRetry ==
  [][/\ InFlight' > InFlight =>
          /\ InFlight' = InFlight + 1
          /\ \/ \E fd \in FormsNow : fd # <<>> /\ handleScan(fd)
             \/ \E request \in ExplainRequestsNow : request # Null /\ handleExplainIssue(request)
             \/ \E request \in ExplainRequestsNow : request # Null /\ handleSendMessage(request)
     /\ activeTab = "upload" =>
          (handleScan(BuildFormData(files, mode)) => Len(net') = Len(net) + 1)
     /\ (activeTab = "dashboard" /\ selectedIssue # Null) =>
          (handleExplainIssue(ExplainRequest(selectedIssue)) =>
             Len(explainNet') = Len(explainNet) + 1)
     \* a send that asks the backend clears the non-blank input
     /\ (activeTab = "ai-assistant" /\ input' # input) =>
          \A request \in ExplainRequestsNow \ {Null} :
            handleSendMessage(request) => Len(assistantNet') = Len(assistantNet) + 1
     /\ \A i \in 1..Len(net), e \in AxiosErrors :
          scan_rejected(i, e) =>
             (Len(net') = Len(net) - 1 /\ InFlight' = InFlight - 1)
     /\ \A i \in 1..Len(explainNet), e \in AxiosErrors :
          explain_rejected(i, e) =>
             (Len(explainNet') = Len(explainNet) - 1 /\ InFlight' = InFlight - 1)
     /\ \A i \in 1..Len(assistantNet), e \in AxiosErrors :
          assistant_rejected(i, e) =>
             (Len(assistantNet') = Len(assistantNet) - 1 /\ InFlight' = InFlight - 1)]_vars

C20_Witness ==
  /\ error = "Network Error"
  /\ activeTab = "upload"
  /\ scanData = Null
  /\ HeldSlots # {}
  /\ InFlight = 0
  /\ ~isScanning

-----------------------------------------------------------------------------
(* Requests and the analysis mode *)

\* the values of the mode parts of form fd
ModeParts(fd) == {fd[j].value : j \in {j \in 1..Len(fd) : fd[j].name = "mode"}}

\* C21: every /scan request and every /explain request carries the analysis
\* mode the user selected in the upload controller, one of 'beginner' and
\* 'devops', 'devops' when the user never changed it.
C21_RequestsCarrySelectedMode ==
  [][/\ \A fd \in FormsNow :
          (handleScan(fd) /\ Len(net') = Len(net) + 1) =>
             /\ PartCount(fd, "mode") = 1
             /\ ModeParts(fd) = {selectedMode}
     /\ \A request \in ExplainRequestsNow \ {Null} :
          (handleExplainIssue(request) \/ handleSendMessage(request)) =>
             /\ request.mode \in Modes
             /\ request.mode = selectedMode]_vars

-----------------------------------------------------------------------------
(* Severity classes *)

\* the class of a severity: critical, high, medium or low whatever the case it is
\* written in, low for anything else
SeverityClass(severity) ==
  IF toLowerCase(severity) \in {"critical", "high", "medium", "low"}
  THEN "badge-" \o toLowerCase(severity) ELSE "badge-low"

\* C22: IssueSummary, Report, SecretAlerts and BestPractices classify a severity
\* case-insensitively into critical/high/medium/low, an absent or unrecognized
\* one as low, so an issue has the same severity class in every view.
C22_SameSeverityClassInEveryView ==
  \A j \in 1..Len(AllIssues(scanData)) :
     LET severity == AllIssues(scanData)[j].severity
     IN  /\ IssueSummary_getSeverityBadge(severity).class = SeverityClass(severity)
         /\ Report_getSeverityBadge(severity) = SeverityClass(severity)
         /\ SecretAlerts_getSeverityBadge(severity) = SeverityClass(severity)
         /\ BestPractices_getSeverityBadge(severity) = SeverityClass(severity)

-----------------------------------------------------------------------------
(* The scanning flag *)

\* C23: isScanning is true if and only if at least one /scan request is in
\* flight (issued and not yet resolved).
C23_IsScanningIffScanInFlight == isScanning <=> (Len(net) > 0)

-----------------------------------------------------------------------------
(* The selected issue *)

\* C24: the dashboard's selectedIssue is null or an issue of one of the four
\* issue arrays of the scanData held; it never is an issue of a result that has
\* been replaced.
C24_SelectedIssueIsOfHeldResult ==
  selectedIssue = Null \/ selectedIssue \in IssueSet(scanData)

-----------------------------------------------------------------------------
(* The explanation of the selected issue *)

\* AIExplanation renders the detailed explanation under Selected Issue
ExplanationDisplayed ==
  /\ ResultsShown(activeTab, isScanning, scanData)
  /\ selectedIssue # Null
  /\ isExpanded
  /\ detailedExplanation # NoExplanation

\* C25: the detailed explanation shown under Selected Issue belongs to the issue
\* selected: the response or failure text of a request made for another issue
\* is never displayed under it.
C25_ExplanationIsOfSelectedIssue ==
  ExplanationDisplayed => explainedIssue = selectedIssue

-----------------------------------------------------------------------------
(* Two selections for one slot *)

\* slot k holds the file selected last for it
HoldsLastSelected(fs, k) ==
  Has(fs, k) /\ Has(lastSelected, k) /\ Get(fs, k).file = Get(lastSelected, k)

\* C26: when two files are selected for one slot in succession and both reads
\* complete, in either order, the slot finally holds the file selected last:
\* a read that completes once the file selected last has been loaded, by this
\* read or by an earlier one, leaves that file in the slot.
C26_LaterSelectionWins ==
  [][\A r \in reads :
       (reader_onload(r) /\ (HoldsLastSelected(files, r.key) \/ r.file = Get(lastSelected, r.key))) =>
          HoldsLastSelected(files', r.key)]_vars

-----------------------------------------------------------------------------
(* Filter and search together *)

\* y consists of elements of x at increasing positions
IsSubsequence(y, x) == \E idx \in SUBSET (1..Len(x)) : y = Picked(x, idx)

\* C27: the severity filter and the text search commute and each is idempotent,
\* and each of their results is an order-preserving subsequence of the list
\* they were given.
C27_FilterAndSearchCommute ==
  LET x == AllIssues(scanData)
      F(y) == filterIssues(y, filter)
      S(y) == searchIssues(y, searchTerm)
  IN  /\ S(F(x)) = F(S(x))
      /\ F(F(x)) = F(x)
      /\ S(S(x)) = S(x)
      /\ IsSubsequence(F(x), x)
      /\ IsSubsequence(S(x), x)
      /\ IsSubsequence(S(F(x)), x)

C27_Witness ==
  LET x == AllIssues(scanData)
  IN  /\ filter = "critical"
      /\ searchTerm = "oo"
      /\ Len(filterIssues(x, filter)) < Len(x)
      /\ Len(searchIssues(x, searchTerm)) < Len(x)
      /\ Len(searchIssues(x, searchTerm)) >= 3
      /\ Len(filterIssues(x, filter)) >= 2
      /\ filteredIssues # <<>>
      /\ Len(filteredIssues) < Len(searchIssues(x, searchTerm))
      /\ x[1].severity = "Critical"

-----------------------------------------------------------------------------
(* Summary counts and report filter *)

\* the number of issues the Report lists for severity filter f
FilterCount(d, f) == Len(filterIssues(AllIssues(d), f))

\* the number of issues whose severity is in bucket when lower-cased, and is
\* not written as one of the strings in exact
CountedOnlyBySummary(d, bucket, exact) ==
  Cardinality({j \in 1..Len(AllIssues(d)) :
                 /\ toLowerCase(AllIssues(d)[j].severity) \in bucket
                 /\ AllIssues(d)[j].severity \notin exact})

\* C28 as stated: the Critical/High count of the summary is the number of issues
\* the report lists for filter critical plus the number for filter high, and
\* the Medium count is the number it lists for filter medium.
C28_SummaryCountsEqualFilterCounts ==
  /\ CriticalHighCount(scanData) = FilterCount(scanData, "critical") + FilterCount(scanData, "high")
  /\ MediumCount(scanData) = FilterCount(scanData, "medium")

\* C28 amended: the Critical/High count is the number of issues the report lists
\* for critical plus the number for high plus the number of issues whose
\* severity is critical, high or error in another spelling; the Medium count is
\* the number listed for medium plus the number of issues whose severity is
\* medium or warning in another spelling.
C28_SummaryCountsExceedFilterCounts ==
  /\ CriticalHighCount(scanData) =
       FilterCount(scanData, "critical") + FilterCount(scanData, "high")
         + CountedOnlyBySummary(scanData, {"critical", "high", "error"}, {"critical", "high"})
  /\ MediumCount(scanData) =
       FilterCount(scanData, "medium")
         + CountedOnlyBySummary(scanData, {"medium", "warning"}, {"medium"})

C28_Witness ==
  /\ CriticalHighCount(scanData) = 2
  /\ FilterCount(scanData, "critical") = 1
  /\ FilterCount(scanData, "high") = 0
  /\ MediumCount(scanData) = 0
  /\ selectedIssue # Null
  /\ toLowerCase(selectedIssue.severity) = "high"

-----------------------------------------------------------------------------
(* The assistant's conversation *)

\* s is an initial part of t
IsPrefix(s, t) == Len(s) <= Len(t) /\ SubSeq(t, 1, Len(s)) = s

\* the requests of the mounted AIAssistant awaiting their reply
PendingReplies == {i \in 1..Len(assistantNet) : assistantNet[i].live}

\* the greeting first, then user and assistant messages in turn
Alternates ==
  /\ messages[1] = Greeting
  /\ \A j \in 2..Len(messages) :
       messages[j].type = IF j % 2 = 0 THEN "user" ELSE "assistant"

\* C29 as stated: the message list is append-only, and every request the
\* assistant made appends exactly one assistant message when it settles.
C29_EveryRequestIsAnswered ==
  [][/\ IsPrefix(messages, messages')
     /\ \A i \in 1..Len(assistantNet) :
          assistant_settled(i) =>
             /\ Len(messages') = Len(messages) + 1
             /\ messages'[Len(messages')].type = "assistant"]_vars

\* C29 amended: sending is a no-op while the input is blank or a reply is
\* pending, so at most one reply is pending; after the greeting, user and
\* assistant messages alternate; while the assistant stays mounted the list is
\* append-only, an accepted message is appended as a user message, and the
\* settling of its request appends exactly one assistant message and ends the
\* loading state; a request whose assistant was unmounted settles without any
\* effect; a pending reply always ends, by the reply or by leaving the view.
C29_RepliesWhileMounted ==
  /\ [](/\ Alternates
        /\ Cardinality(PendingReplies) <= 1
        /\ isLoading <=> PendingReplies # {}
        /\ isLoading <=> Len(messages) % 2 = 0)
  /\ [][/\ \A request \in ExplainRequestsNow :
            handleSendMessage(request) =>
               IF Trim(input) = "" \/ isLoading
               THEN UNCHANGED <<messages, input, isLoading, assistantNet>>
               ELSE /\ IsPrefix(Append(messages, [type |-> "user", content |-> <<"input", Trim(input)>>]),
                                messages')
                    /\ Len(messages') = IF isLoading' THEN Len(messages) + 1 ELSE Len(messages) + 2
                    /\ isLoading' <=> request # Null
        /\ (activeTab = "ai-assistant" /\ activeTab' = "ai-assistant") => IsPrefix(messages, messages')
        /\ \A i \in 1..Len(assistantNet) :
            assistant_settled(i) =>
               IF assistantNet[i].live
               THEN /\ Len(messages') = Len(messages) + 1
                    /\ IsPrefix(messages, messages')
                    /\ messages'[Len(messages')].type = "assistant"
                    /\ messages'[Len(messages')].content[1] \in {"explanation", "apology"}
                    /\ ~isLoading'
               ELSE UNCHANGED <<messages, isLoading>>]_vars
  /\ (isLoading ~> ~isLoading)

C29_Witness ==
  /\ activeTab = "ai-assistant"
  /\ Len(messages) = 5
  /\ messages[2].type = "user"
  /\ messages[3].content[1] = "apology"
  /\ messages[4].type = "user"
  /\ messages[5].content[1] = "explanation"
  /\ ~isLoading
  /\ \E i \in 1..Len(assistantNet) : ~assistantNet[i].live

-----------------------------------------------------------------------------
(* The suggestions rendered *)

\* the suggestions BestPractices renders, section after section
RenderedSuggestions == Flatten(displayedGroups(best_practices(scanData)))

\* suggestions.length, the count of the footer
FooterCount == Len(best_practices(scanData))

\* C30: every input suggestion is rendered in exactly one displayed category
\* section, so the number of suggestions rendered in all sections is the count
\* shown in the footer.
C30_EverySuggestionRenderedOnce ==
  /\ Len(RenderedSuggestions) = FooterCount
  /\ \A index \in 0..(FooterCount - 1) :
       Cardinality({j \in 1..Len(RenderedSuggestions) :
                      RenderedSuggestions[j].originalIndex = index}) = 1

====
